---- MODULE Spec2Model ----
(***************************************************************************)
(* Face-recognition attendance app: the embedding matcher.                 *)
(*                                                                         *)
(* The repository holds two copies of the matcher:                         *)
(*   - src/unnamed/part_003 (the faceRecognition module that exports       *)
(*     ensureArray / normalizeEmbedding and is used by                     *)
(*     screens/AttendanceScannerScreen.tsx), modelled by the definitions   *)
(*     ensureArray, cosineSimilarity, findBestMatch*;                      *)
(*   - src/lib/faceRecognition.ts (used by the scanner of part_004),       *)
(*     modelled by the definitions with the suffix _lib.                   *)
(*                                                                         *)
(* Numbers.  Embedding components are small integers.  A similarity is the *)
(* real number num / sqrt(den2), kept as the pair (num, den2) and compared *)
(* exactly (SimGE, SimGT); IEEE-754 rounding of the quotient is not        *)
(* modelled.  NaN (0/0) is a separate kind that fails every comparison.    *)
(* The normalizer works on a fixed-point grid: the integer k stands for    *)
(* k / One; the vectors of the pool have integer norms, so the square root *)
(* and the divisions are exact.                                            *)
(*                                                                         *)
(* Spec is one run of a handler: a direct call of findBestMatch, the       *)
(* scanner (syncFaceState, onCapture, findBestMatch), the enrollment       *)
(* screen, or generateEmbeddingFromPhoto.  SpecCalls is a sequence of      *)
(* calls of findBestMatch with calls of normalizeEmbedding and of          *)
(* loadFaceModel between them.                                             *)
(***************************************************************************)
EXTENDS Integers, Sequences, FiniteSets, TLC

\* ------------------------------------------------------------------ bounds
\* longest enrollment sequence handed to findBestMatch
MaxRecords == 2

StudentIds == {"s1", "s2"}

SeqsUpTo(S, n) == UNION {[1..k -> S] : k \in 0..n}

\* The embeddings the inputs are drawn from (2 components stand for the 128 of
\* MobileFaceNet): the empty vector, a vector of another length, the zero
\* vector, two vectors of one direction (similarity 1 to each other), vectors
\* at similarity 0.6 (3-4-5: exactly the threshold), 0.8 and 0.96 to others,
\* orthogonal vectors (0) and opposite ones (-1).
Vectors ==
    {<<>>, <<3>>, <<0, 0>>, <<3, 0>>, <<4, 0>>, <<0, 4>>, <<3, 4>>, <<4, 3>>,
     <<0 - 3, 0>>}

\* ------------------------------------------------- JavaScript values (any)
\* An embedding argument as the runtime sees it: a plain array, a
\* Float32Array, null/undefined, or a plain object with numeric keys (what a
\* worklet makes of a typed array).  For an object, hole = k > 0 says that
\* key k-1 is missing (input[k-1] === undefined); hole = 0 says none is.
JsArray(v) == [kind |-> "array", data |-> v, hole |-> 0]
JsFloat32(v) == [kind |-> "float32", data |-> v, hole |-> 0]
JsObject(v, h) == [kind |-> "object", data |-> v, hole |-> h]
JsNull == [kind |-> "null", data |-> <<>>, hole |-> 0]

LiveInputs ==
    {JsArray(v) : v \in Vectors} \cup {JsFloat32(v) : v \in Vectors}
    \cup UNION {{JsObject(v, h) : h \in 0..Len(v)} : v \in Vectors}
    \cup {JsNull}

\* The raw descriptors a camera frame can carry: the pool and one vector of
\* another scale, twice <<3, 4>>.
RawVectors == Vectors \cup {<<6, 8>>}
FrameInputs ==
    {JsArray(v) : v \in RawVectors} \cup {JsFloat32(v) : v \in RawVectors}
    \cup UNION {{JsObject(v, h) : h \in 0..Len(v)} : v \in RawVectors}
    \cup {JsNull}

StoredRecords == [studentId : StudentIds, embedding : {JsArray(v) : v \in Vectors}]
Enrollments == SeqsUpTo(StoredRecords, MaxRecords)

\* ------------------------------------------------------------ similarities
Sim(n, d2) == [kind |-> "num", num |-> n, den2 |-> d2]
SimZero == Sim(0, 1)
SimNaN == [kind |-> "nan", num |-> 0, den2 |-> 1]
SimThrow == [kind |-> "throw", num |-> 0, den2 |-> 1]

Sgn(n) == IF n > 0 THEN 1 ELSE IF n < 0 THEN -1 ELSE 0
\* sign(x) * x^2 of x = a.num * sqrt(b.den2): strictly monotone in x
Cross(a, b) == Sgn(a.num) * a.num * a.num * b.den2

\* a >= b and a > b on numbers; false when either side is NaN, as in JS
SimGE(a, b) == a.kind = "num" /\ b.kind = "num" /\ Cross(a, b) >= Cross(b, a)
SimGT(a, b) == a.kind = "num" /\ b.kind = "num" /\ Cross(a, b) > Cross(b, a)
SimEQ(a, b) == a.kind = "num" /\ b.kind = "num" /\ Cross(a, b) = Cross(b, a)

\* a threshold of 0: every number that is not negative meets it
ZeroThreshold == Sim(0, 1)

\* export const SIMILARITY_THRESHOLD = 0.6 (6 / sqrt(100))
SIMILARITY_THRESHOLD == Sim(6, 100)

\* ------------------------------------------------------------- ensureArray
EnsureArrayCap == 128

Min(a, b) == IF a < b THEN a ELSE b

ensureArray(input) ==
    CASE input.kind = "null" -> <<>>
      [] input.kind = "array" -> input.data
      [] input.kind = "float32" -> input.data
      [] OTHER ->
           LET defined == IF input.hole > 0 /\ input.hole <= Len(input.data)
                          THEN input.hole - 1 ELSE Len(input.data)
           IN SubSeq(input.data, 1, Min(defined, EnsureArrayCap))

\* -------------------------------------------------------- cosineSimilarity
RECURSIVE SumProd(_, _, _)
SumProd(a, b, n) == IF n = 0 THEN 0 ELSE SumProd(a, b, n - 1) + a[n] * b[n]

cosineSimilarity_prefix(embedding1, embedding2) ==
    LET a_arr == ensureArray(embedding1)
        b_arr == ensureArray(embedding2)
    IN IF Len(a_arr) > Len(b_arr) THEN SimZero
       ELSE LET dotProduct == SumProd(a_arr, b_arr, Len(a_arr))
                norm1 == SumProd(a_arr, a_arr, Len(a_arr))
                norm2 == SumProd(b_arr, b_arr, Len(a_arr))
            IN IF norm1 * norm2 = 0 THEN SimZero
               ELSE Sim(dotProduct, norm1 * norm2)

cosineSimilarity_norm1(embedding1, embedding2) ==
    LET a_arr == ensureArray(embedding1)
        b_arr == ensureArray(embedding2)
    IN IF Len(a_arr) # Len(b_arr) THEN SimZero
       ELSE LET dotProduct == SumProd(a_arr, b_arr, Len(a_arr))
                norm1 == SumProd(a_arr, a_arr, Len(a_arr))
                norm2 == SumProd(b_arr, b_arr, Len(a_arr))
            IN IF norm1 * norm2 = 0 THEN SimZero
               ELSE Sim(dotProduct, norm1)

cosineSimilarity_nosqrt(embedding1, embedding2) ==
    LET a_arr == ensureArray(embedding1)
        b_arr == ensureArray(embedding2)
    IN IF Len(a_arr) # Len(b_arr) THEN SimZero
       ELSE LET dotProduct == SumProd(a_arr, b_arr, Len(a_arr))
                norm1 == SumProd(a_arr, a_arr, Len(a_arr))
                norm2 == SumProd(b_arr, b_arr, Len(a_arr))
            IN IF norm1 * norm2 = 0 THEN SimZero
               ELSE Sim(dotProduct, norm1 * norm2 * norm1 * norm2)

cosineSimilarity(embedding1, embedding2) ==
    LET a_arr == ensureArray(embedding1)
        b_arr == ensureArray(embedding2)
    IN IF Len(a_arr) # Len(b_arr) THEN SimZero
       ELSE LET dotProduct == SumProd(a_arr, b_arr, Len(a_arr))
                norm1 == SumProd(a_arr, a_arr, Len(a_arr))
                norm2 == SumProd(b_arr, b_arr, Len(a_arr))
            IN IF norm1 * norm2 = 0 THEN SimZero
               ELSE Sim(dotProduct, norm1 * norm2)

\* The .length property as src/lib/faceRecognition.ts reads it: -1 stands for
\* undefined (a plain object has no length).  Reading it off null throws.
LengthOf(e) == IF e.kind \in {"array", "float32"} THEN Len(e.data) ELSE 0 - 1

cosineSimilarity_lib(embedding1, embedding2) ==
    IF embedding1.kind = "null" \/ embedding2.kind = "null" THEN SimThrow
    ELSE IF LengthOf(embedding1) # LengthOf(embedding2) THEN SimThrow
    ELSE LET n == LengthOf(embedding1)
             dotProduct == SumProd(embedding1.data, embedding2.data, n)
             norm1 == SumProd(embedding1.data, embedding1.data, n)
             norm2 == SumProd(embedding2.data, embedding2.data, n)
         IN IF norm1 * norm2 = 0 THEN SimNaN
            ELSE Sim(dotProduct, norm1 * norm2)

\* ------------------------------------------------------ normalizeEmbedding
\* Fixed point: the integer k stands for the number k / One, so that a unit
\* vector has integer components (<<3, 4>> is [0.6, 0.8]).  cosineSimilarity
\* is a quotient of two quantities of the same unit and needs no rescaling.
\* Every vector of the pool has an integer norm that divides One times each
\* of its components: sqrt and the divisions below are exact on the pool, and
\* the rounding of IEEE-754 arithmetic is not modelled.
One == 5

SumSq(v) == SumProd(v, v, Len(v))

\* Math.sqrt
Sqrt(n) == CHOOSE r \in 0..n : r * r <= n /\ (r + 1) * (r + 1) > n

\* the square root left out: each component is divided by the sum of squares
normalizeEmbedding_nosqrt(embedding) ==
    LET norm == SumSq(embedding)
    IN IF norm = 0 THEN embedding
       ELSE [i \in 1..Len(embedding) |-> (embedding[i] * One * One) \div norm]

\* the zero vector is not returned as it is
\* only a vector of norm above 1 is scaled down
normalizeEmbedding_clamp(embedding) ==
    LET norm == Sqrt(SumSq(embedding))
    IN IF norm <= One THEN embedding
       ELSE [i \in 1..Len(embedding) |-> (embedding[i] * One) \div norm]

normalizeEmbedding(embedding) ==
    LET norm == Sqrt(SumSq(embedding))
    IN IF norm = 0 THEN embedding
       ELSE [i \in 1..Len(embedding) |-> (embedding[i] * One) \div norm]

\* an array whose components are all NaN (0 / 0)
JsNaNArray(v) == [kind |-> "nan_array", data |-> v, hole |-> 0]

\* src/lib/faceRecognition.ts, generateEmbeddingFromPhoto, step 2g:
\* embedding.map(val => val / norm), with no test of norm
normalize_lib(embedding) ==
    LET norm == Sqrt(SumSq(embedding))
    IN IF norm = 0
       THEN IF Len(embedding) = 0 THEN JsArray(embedding) ELSE JsNaNArray(embedding)
       ELSE JsArray([i \in 1..Len(embedding) |-> (embedding[i] * One) \div norm])

\* ----------------------------------------------------------- findBestMatch
\* a sentinel object in the place of null
SentinelMatch == [kind |-> "match", studentId |-> "", similarity |-> SimZero]

\* null, as the value of bestMatch and as the value returned
NullMatch == [kind |-> "null", studentId |-> "", similarity |-> SimZero]
ThrowResult == [kind |-> "throw", studentId |-> "", similarity |-> SimZero]
Pending == [kind |-> "pending", studentId |-> "", similarity |-> SimZero]
Match(id, s) == [kind |-> "match", studentId |-> id, similarity |-> s]

\* the threshold test left out
MeetsThreshold_none(similarity) == similarity.kind = "num"

\* the test the file header describes: "If score > 0.6"
MeetsThreshold_strict(similarity) == SimGT(similarity, SIMILARITY_THRESHOLD)

\* if (similarity >= SIMILARITY_THRESHOLD)
MeetsThreshold(similarity) == SimGE(similarity, SIMILARITY_THRESHOLD)

\* the first qualifying record is kept: a better one never replaces it
Replaces_first(best, similarity) == best.kind = "null"

\* >= in the place of >: a later record of equal similarity replaces
Replaces_ge(best, similarity) ==
    best.kind = "null" \/ SimGE(similarity, best.similarity)

\* if (!bestMatch || similarity > bestMatch.similarity)
Replaces(best, similarity) ==
    best.kind = "null" \/ SimGT(similarity, best.similarity)

VARIABLES
    pc,                \* "idle", "frame", "scanner", "enroll", "loop", "loop_lib", "done"
    impl,              \* which findBestMatch ran: "none", "part_003", "lib"
    liveEmbedding,     \* argument 1
    storedEmbeddings,  \* argument 2
    liveArr,           \* const liveArr = ensureArray(liveEmbedding)
    idx,               \* position of the for-of iterator (next record)
    bestMatch,         \* let bestMatch
    bestIdx,           \* history: position of the record bestMatch came from
    compared,          \* history: positions passed to cosineSimilarity
    similarity,        \* const similarity of the latest iteration
    result,            \* what the call returned (or that it threw)
    flow,              \* which handler runs: "none", "call", "scan", "enroll", "photo"
    vector,            \* the descriptor the frame processor / the model hands over
    vectorRef,         \* vectorRef.current: a Float32Array or null
    normalizedEmbedding, \* const normalizedEmbedding of the handler
    threshold,         \* a third argument the caller passes to findBestMatch
    model,             \* let model: "null" or "loaded"
    pendingLoads,      \* calls of loadFaceModel awaiting loadTensorflowModel
    numLoads,          \* calls of loadFaceModel made so far
    numCalls,          \* calls of findBestMatch made so far
    returned,          \* history: the calls of findBestMatch that returned
    ctx,               \* which AppProvider runs: "AppContext", "part_008"
    students,          \* useState students: the ids of the student list
    sessions,          \* useState sessions, the newest first
    currentSessionId,  \* useState currentSessionId, 0 stands for null
    rendered,          \* the state of the latest render, which the closures see
    usedIds,           \* history: the student ids generateId has given out
    nextId,            \* the session id generateId gives next
    lastCall,          \* history: the latest call of markAttendance
    screen,            \* which scanner is open: "none", "AttendanceScannerScreen", "part_004"
    isCapturing,       \* isCapturing.current of AttendanceScannerScreen.tsx
    isProcessing,      \* isProcessing.current of src/unnamed/part_004
    stage,             \* where the capture handler waits: "ready", "photo", "marking", "timer"
    closure,           \* the render whose students and markAttendance the handler holds
    match,             \* const match of the handler
    finds,             \* history: parity of the scanner's calls of findBestMatch
    wasMarked,         \* const wasMarked of the handler
    scanResult,        \* useState result: "null", "success", "duplicate", "unknown"
    lastRecognitionTime, \* lastRecognitionTime.current: 0, or 1 for a time of a capture
    request,           \* history: what the latest capture request did: "none", "returned", "started"
    overlap,           \* history: a capture began while another was in progress
    face_embeddings,   \* the rows of the table face_embeddings, in rowid order
    lastSaved          \* history: per student, the embeddings saved since the last delete

matcherVars == <<pc, impl, liveEmbedding, storedEmbeddings, liveArr, idx, bestMatch,
                 bestIdx, compared, similarity, result>>
pipeVars == <<flow, vector, vectorRef, normalizedEmbedding>>

callVars == <<threshold, model, pendingLoads, numLoads, numCalls, returned>>

sessVars == <<ctx, students, sessions, currentSessionId, rendered, usedIds, nextId,
              lastCall>>

scanVars == <<screen, isCapturing, isProcessing, stage, closure, match, finds, wasMarked,
              scanResult, lastRecognitionTime, request, overlap>>

dbVars == <<face_embeddings, lastSaved>>

coreVars == <<matcherVars, pipeVars, callVars>>
appVars == <<sessVars, scanVars, dbVars>>

vars == <<coreVars, appVars>>

\* ------------------------------------------------- AppProvider: the state
MaxSessions == 2

\* { id, presentCount, attendees } of an AttendanceSession; an attendee is
\* kept as its studentId
Session(id, count, att) == [id |-> id, presentCount |-> count, attendees |-> att]

Snapshot == [students |-> students, sessions |-> sessions,
             currentSessionId |-> currentSessionId]

NoCall == [op |-> "none", arg |-> "", ret |-> FALSE, unseen |-> FALSE, tick |-> 0]

\* useState([]), useState([]), useState(null)
InitApp ==
    /\ students = {}
    /\ sessions = <<>>
    /\ currentSessionId = 0
    /\ rendered = [students |-> {}, sessions |-> <<>>, currentSessionId |-> 0]
    /\ usedIds = {}
    /\ nextId = 1
    /\ lastCall = NoCall

\* ------------------------------------------------- the scanners: the state
NoRequest == "none"

\* no handler is running: it holds no render
NoClosure == [students |-> {}, sessions |-> <<>>, currentSessionId |-> 0]

\* useRef(false), useState(null), useRef(0) of both scanner screens
InitScan ==
    /\ isCapturing = FALSE
    /\ isProcessing = FALSE
    /\ stage = "ready"
    /\ closure = NoClosure
    /\ match = Pending
    /\ finds = 0
    /\ wasMarked = FALSE
    /\ scanResult = "null"
    /\ lastRecognitionTime = 0
    /\ request = NoRequest
    /\ overlap = FALSE

\* ------------------------------------------- src/lib/database.ts: the state
\* the table as initializeTables creates it
InitDb ==
    /\ face_embeddings = <<>>
    /\ lastSaved = [id \in StudentIds |-> <<>>]

\* findBestMatch declares two parameters; a third argument is bound to nothing.
\* NoArgument stands for a call that passes two arguments.
NoArgument == [kind |-> "undefined", num |-> 0, den2 |-> 1]
NineTenths == Sim(9, 100)
CallThresholds == {NoArgument, NineTenths}

\* The arguments of the repeated calls: the similarity of <<4, 0>> to <<4, 3>>
\* is 0.8, that of <<4, 3>> to <<0, 4>> is 0.6, that of <<4, 0>> to <<0, 4>>
\* is 0, and <<3>> is of another length.
MaxCalls == 2
MaxLoads == 2
CallQueries == {JsArray(<<4, 0>>), JsArray(<<4, 3>>)}
CallEnrollments ==
    { <<>>,
      <<[studentId |-> "s1", embedding |-> JsArray(<<4, 3>>)]>>,
      <<[studentId |-> "s1", embedding |-> JsArray(<<3>>)],
        [studentId |-> "s2", embedding |-> JsArray(<<0, 4>>)]>> }

\* `let bestMatch ... = null`: each call of findBestMatch declares its own
\* bestMatch (the mutant keeps the one the previous call left).
InitialBestMatch_stale == bestMatch
InitialBestMatch == NullMatch

\* Either a direct call of findBestMatch is about to be made (pc = "idle",
\* the arguments are drawn), or a screen is open and the frame processor is
\* about to hand over a descriptor (pc = "frame").
Init ==
    /\ \/ /\ pc = "idle"
          /\ liveEmbedding \in LiveInputs
          /\ vector = JsNull
       \/ /\ pc = "frame"
          /\ liveEmbedding = JsNull
          /\ vector \in FrameInputs
    /\ flow = "none"
    /\ vectorRef = JsNull
    /\ normalizedEmbedding = JsNull
    /\ impl = "none"
    /\ storedEmbeddings \in Enrollments
    /\ liveArr = <<>>
    /\ idx = 1
    /\ bestMatch = NullMatch
    /\ bestIdx = 0
    /\ compared = <<>>
    /\ similarity = SimZero
    /\ result = Pending
    /\ threshold = NoArgument
    /\ model = "null"
    /\ pendingLoads = 0
    /\ numLoads = 0
    /\ numCalls = 1
    /\ returned = {}
    /\ ctx = "AppContext"
    /\ InitApp
    /\ screen = "none"
    /\ InitScan
    /\ InitDb

\* src/unnamed/part_003: entry of findBestMatch, up to the for loop
findBestMatch ==
    /\ UNCHANGED callVars
    /\ UNCHANGED appVars
    /\ pc = "idle"
    /\ impl' = "part_003"
    /\ flow' = (IF flow = "none" THEN "call" ELSE flow)
    /\ UNCHANGED <<vector, vectorRef, normalizedEmbedding>>
    /\ IF Len(storedEmbeddings) = 0
       THEN /\ pc' = "done"
            /\ result' = NullMatch
            /\ UNCHANGED liveArr
       ELSE /\ liveArr' = ensureArray(liveEmbedding)
            /\ IF Len(liveArr') = 0
               THEN pc' = "done" /\ result' = NullMatch
               ELSE pc' = "loop" /\ UNCHANGED result
    /\ bestMatch' = InitialBestMatch
    /\ idx' = 1
    /\ bestIdx' = 0
    /\ compared' = <<>>
    /\ similarity' = SimZero
    /\ UNCHANGED <<liveEmbedding, storedEmbeddings>>

\* one iteration of `for (const stored of storedEmbeddings)`
findBestMatchLoop ==
    /\ UNCHANGED callVars
    /\ UNCHANGED appVars
    /\ UNCHANGED pipeVars
    /\ pc = "loop"
    /\ idx <= Len(storedEmbeddings)
    /\ LET stored == storedEmbeddings[idx]
       IN /\ similarity' = cosineSimilarity(JsArray(liveArr), stored.embedding)
          /\ compared' = Append(compared, idx)
          /\ IF MeetsThreshold(similarity') /\ Replaces(bestMatch, similarity')
             THEN /\ bestMatch' = Match(stored.studentId, similarity')
                  /\ bestIdx' = idx
             ELSE UNCHANGED <<bestMatch, bestIdx>>
    /\ idx' = idx + 1
    /\ UNCHANGED <<pc, impl, liveEmbedding, storedEmbeddings, liveArr, result>>

\* the iterator is exhausted: return bestMatch
findBestMatchReturn ==
    /\ UNCHANGED callVars
    /\ UNCHANGED appVars
    /\ UNCHANGED pipeVars
    /\ pc = "loop"
    /\ idx > Len(storedEmbeddings)
    /\ result' = bestMatch
    /\ pc' = "done"
    /\ UNCHANGED <<impl, liveEmbedding, storedEmbeddings, liveArr, idx, bestMatch,
                   bestIdx, compared, similarity>>

\* src/lib/faceRecognition.ts: entry of findBestMatch
findBestMatch_lib ==
    /\ UNCHANGED callVars
    /\ UNCHANGED appVars
    /\ pc = "idle"
    /\ flow = "none"
    /\ impl' = "lib"
    /\ flow' = "call"
    /\ UNCHANGED <<vector, vectorRef, normalizedEmbedding>>
    /\ IF Len(storedEmbeddings) = 0
       THEN pc' = "done" /\ result' = NullMatch
       ELSE pc' = "loop_lib" /\ UNCHANGED result
    /\ bestMatch' = InitialBestMatch
    /\ idx' = 1
    /\ bestIdx' = 0
    /\ compared' = <<>>
    /\ similarity' = SimZero
    /\ UNCHANGED <<liveEmbedding, storedEmbeddings, liveArr>>

findBestMatchLoop_lib ==
    /\ UNCHANGED callVars
    /\ UNCHANGED appVars
    /\ UNCHANGED pipeVars
    /\ pc = "loop_lib"
    /\ idx <= Len(storedEmbeddings)
    /\ LET stored == storedEmbeddings[idx]
       IN /\ similarity' = cosineSimilarity_lib(liveEmbedding, stored.embedding)
          /\ compared' = Append(compared, idx)
          /\ IF similarity'.kind = "throw"
             THEN /\ result' = ThrowResult
                  /\ pc' = "done"
                  /\ UNCHANGED <<bestMatch, bestIdx, idx>>
             ELSE /\ IF MeetsThreshold(similarity') /\ Replaces(bestMatch, similarity')
                     THEN /\ bestMatch' = Match(stored.studentId, similarity')
                          /\ bestIdx' = idx
                     ELSE UNCHANGED <<bestMatch, bestIdx>>
                  /\ idx' = idx + 1
                  /\ UNCHANGED <<pc, result>>
    /\ UNCHANGED <<impl, liveEmbedding, storedEmbeddings, liveArr>>

findBestMatchReturn_lib ==
    /\ UNCHANGED callVars
    /\ UNCHANGED appVars
    /\ UNCHANGED pipeVars
    /\ pc = "loop_lib"
    /\ idx > Len(storedEmbeddings)
    /\ result' = bestMatch
    /\ pc' = "done"
    /\ UNCHANGED <<impl, liveEmbedding, storedEmbeddings, liveArr, idx, bestMatch,
                   bestIdx, compared, similarity>>

\* screens/AttendanceScannerScreen.tsx, syncFaceState: the frame processor
\* hands the model output over to the JS thread
syncFaceState ==
    /\ UNCHANGED callVars
    /\ UNCHANGED appVars
    /\ pc = "frame"
    /\ flow' = "scan"
    /\ LET cleanVector == ensureArray(vector)
       IN vectorRef' = IF Len(cleanVector) > 0 THEN JsFloat32(cleanVector) ELSE JsNull
    /\ pc' = "scanner"
    /\ UNCHANGED <<impl, liveEmbedding, storedEmbeddings, liveArr, idx, bestMatch,
                   bestIdx, compared, similarity, result, vector, normalizedEmbedding>>

\* screens/AttendanceScannerScreen.tsx, onCapture, up to the call of
\* findBestMatch(normalizedEmbedding, storedEmbeddings)
onCapture_inplace ==
    /\ UNCHANGED callVars
    /\ UNCHANGED appVars
    /\ pc = "scanner"
    /\ IF vectorRef.kind = "null" \/ Len(storedEmbeddings) = 0
       THEN /\ pc' = "done"
            /\ UNCHANGED <<liveEmbedding, normalizedEmbedding, vectorRef>>
       ELSE LET rawEmbedding == vectorRef.data
            IN /\ normalizedEmbedding' = JsArray(normalizeEmbedding(rawEmbedding))
               /\ vectorRef' = JsFloat32(normalizeEmbedding(rawEmbedding))
               /\ liveEmbedding' = normalizedEmbedding'
               /\ pc' = "idle"
    /\ UNCHANGED <<impl, storedEmbeddings, liveArr, idx, bestMatch, bestIdx, compared,
                   similarity, result, flow, vector>>

onCapture ==
    /\ UNCHANGED callVars
    /\ UNCHANGED appVars
    /\ pc = "scanner"
    /\ IF vectorRef.kind = "null" \/ Len(storedEmbeddings) = 0
       THEN /\ pc' = "done"
            /\ UNCHANGED <<liveEmbedding, normalizedEmbedding>>
       ELSE LET rawEmbedding == vectorRef.data
            IN /\ normalizedEmbedding' = JsArray(normalizeEmbedding(rawEmbedding))
               /\ liveEmbedding' = normalizedEmbedding'
               /\ pc' = "idle"
    /\ UNCHANGED <<impl, storedEmbeddings, liveArr, idx, bestMatch, bestIdx, compared,
                   similarity, result, flow, vector, vectorRef>>

\* src/unnamed/part_006 (the enrollment screen), syncFaceState
syncFaceState_enroll ==
    /\ UNCHANGED callVars
    /\ UNCHANGED appVars
    /\ pc = "frame"
    /\ flow' = "enroll"
    /\ LET cleanVector == normalizeEmbedding(ensureArray(vector))
       IN vectorRef' = IF Len(cleanVector) > 0 THEN JsFloat32(cleanVector) ELSE JsNull
    /\ pc' = "enroll"
    /\ UNCHANGED <<impl, liveEmbedding, storedEmbeddings, liveArr, idx, bestMatch,
                   bestIdx, compared, similarity, result, vector, normalizedEmbedding>>

\* src/unnamed/part_006, onCapture: the descriptor handed to saveFaceEmbedding
onCapture_enroll ==
    /\ UNCHANGED callVars
    /\ UNCHANGED appVars
    /\ pc = "enroll"
    /\ IF vectorRef.kind = "null"
       THEN UNCHANGED normalizedEmbedding
       ELSE LET rawEmbedding == vectorRef.data
            IN normalizedEmbedding' = JsArray(normalizeEmbedding(rawEmbedding))
    /\ pc' = "done"
    /\ UNCHANGED <<impl, liveEmbedding, storedEmbeddings, liveArr, idx, bestMatch,
                   bestIdx, compared, similarity, result, flow, vector, vectorRef>>

\* src/lib/faceRecognition.ts, generateEmbeddingFromPhoto, steps 2f and 2g:
\* the model output (a Float32Array) is normalized in place of a call of
\* normalizeEmbedding
generateEmbeddingFromPhoto_lib ==
    /\ UNCHANGED callVars
    /\ UNCHANGED appVars
    /\ pc = "frame"
    /\ vector.kind = "float32"
    /\ flow' = "photo"
    /\ LET embedding == vector.data
       IN normalizedEmbedding' = normalize_lib(embedding)
    /\ pc' = "done"
    /\ UNCHANGED <<impl, liveEmbedding, storedEmbeddings, liveArr, idx, bestMatch,
                   bestIdx, compared, similarity, result, vector, vectorRef>>

Next ==
    \/ syncFaceState
    \/ onCapture
    \/ syncFaceState_enroll
    \/ onCapture_enroll
    \/ generateEmbeddingFromPhoto_lib
    \/ findBestMatch
    \/ findBestMatchLoop
    \/ findBestMatchReturn
    \/ findBestMatch_lib
    \/ findBestMatchLoop_lib
    \/ findBestMatchReturn_lib

Spec == Init /\ [][Next]_vars

\* ------------------------------------------------------- repeated calls
\* the call of findBestMatch that has just returned or thrown
ThisCall ==
    [impl |-> impl, liveEmbedding |-> liveEmbedding,
     storedEmbeddings |-> storedEmbeddings, result |-> result]

\* a caller takes the result and calls findBestMatch again with arguments of
\* its choice
nextCall ==
    /\ UNCHANGED appVars
    /\ pc = "done"
    /\ impl # "none"
    /\ numCalls < MaxCalls
    /\ numCalls' = numCalls + 1
    /\ returned' = returned \cup {ThisCall}
    /\ liveEmbedding' \in CallQueries
    /\ storedEmbeddings' \in CallEnrollments
    /\ threshold' \in CallThresholds
    /\ pc' = "idle"
    /\ impl' = "none"
    /\ flow' = "none"
    /\ result' = Pending
    /\ UNCHANGED <<liveArr, idx, bestMatch, bestIdx, compared, similarity, vector,
                   vectorRef, normalizedEmbedding, model, pendingLoads, numLoads>>

\* between two runs of findBestMatch (the JS thread runs each call to its
\* return) a screen calls normalizeEmbedding on a descriptor
callNormalizeEmbedding ==
    /\ UNCHANGED appVars
    /\ pc \in {"idle", "done"}
    /\ \E v \in {c.data : c \in CallQueries} :
           /\ normalizedEmbedding # JsArray(normalizeEmbedding(v))
           /\ normalizedEmbedding' = JsArray(normalizeEmbedding(v))
    /\ UNCHANGED <<matcherVars, flow, vector, vectorRef, callVars>>

\* src/unnamed/part_003, loadFaceModel up to its await: returns at once when
\* the model is loaded, else starts loadTensorflowModel
loadFaceModel ==
    /\ UNCHANGED appVars
    /\ pc \in {"idle", "done"}
    /\ numLoads < MaxLoads
    /\ numLoads' = numLoads + 1
    /\ pendingLoads' = IF model # "null" THEN pendingLoads ELSE pendingLoads + 1
    /\ UNCHANGED <<matcherVars, pipeVars, threshold, model, numCalls, returned>>

\* loadTensorflowModel resolved: `model = await ...`
loadFaceModelResolved ==
    /\ UNCHANGED appVars
    /\ pc \in {"idle", "done"}
    /\ pendingLoads > 0
    /\ pendingLoads' = pendingLoads - 1
    /\ model' = "loaded"
    /\ UNCHANGED <<matcherVars, pipeVars, threshold, numLoads, numCalls, returned>>

\* loadTensorflowModel rejected: the catch block logs and rethrows
loadFaceModelRejected ==
    /\ UNCHANGED appVars
    /\ pc \in {"idle", "done"}
    /\ pendingLoads > 0
    /\ pendingLoads' = pendingLoads - 1
    /\ UNCHANGED <<matcherVars, pipeVars, threshold, model, numLoads, numCalls,
                   returned>>

InitCalls ==
    /\ pc = "idle"
    /\ liveEmbedding \in CallQueries
    /\ storedEmbeddings \in CallEnrollments
    /\ threshold \in CallThresholds
    /\ vector = JsNull
    /\ flow = "none"
    /\ vectorRef = JsNull
    /\ normalizedEmbedding = JsNull
    /\ impl = "none"
    /\ liveArr = <<>>
    /\ idx = 1
    /\ bestMatch = NullMatch
    /\ bestIdx = 0
    /\ compared = <<>>
    /\ similarity = SimZero
    /\ result = Pending
    /\ model = "null"
    /\ pendingLoads = 0
    /\ numLoads = 0
    /\ numCalls = 1
    /\ returned = {}
    /\ ctx = "AppContext"
    /\ InitApp
    /\ screen = "none"
    /\ InitScan
    /\ InitDb

NextCalls ==
    \/ findBestMatch
    \/ findBestMatchLoop
    \/ findBestMatchReturn
    \/ findBestMatch_lib
    \/ findBestMatchLoop_lib
    \/ findBestMatchReturn_lib
    \/ nextCall
    \/ callNormalizeEmbedding
    \/ loadFaceModel
    \/ loadFaceModelResolved
    \/ loadFaceModelRejected

SpecCalls == InitCalls /\ [][NextCalls]_vars

\* ------------------------------------------------- AppProvider: sessions
\* session.attendees.some((a) => a.studentId === studentId)
HasAttendee(session, studentId) ==
    \E i \in 1..Len(session.attendees) : session.attendees[i] = studentId

\* sessions.find((s) => s.id === id) found a session
HasSession(S, id) == \E i \in 1..Len(S) : S[i].id = id
SessionOf(S, id) == S[CHOOSE i \in 1..Len(S) : S[i].id = id]

\* { ...session, presentCount: session.presentCount + 1,
\*   attendees: [...session.attendees, { studentId, ... }] }
WithAttendee_nocount(session, studentId) ==
    [session EXCEPT !.attendees = Append(@, studentId)]

WithAttendee(session, studentId) ==
    [session EXCEPT !.presentCount = @ + 1, !.attendees = Append(@, studentId)]

\* src/store/AppContext.tsx: sessions.map(...) of markAttendance
MarkedSessions(S, id, studentId) ==
    [i \in 1..Len(S) |-> IF S[i].id = id THEN WithAttendee(S[i], studentId) ELSE S[i]]

\* src/unnamed/part_008: the updater markAttendance passes to setSessions
MarkedSessions_p008_nocheck(prev, id, studentId) ==
    [i \in 1..Len(prev) |->
        IF prev[i].id = id THEN WithAttendee(prev[i], studentId) ELSE prev[i]]

MarkedSessions_p008(prev, id, studentId) ==
    [i \in 1..Len(prev) |->
        IF prev[i].id = id /\ ~HasAttendee(prev[i], studentId)
        THEN WithAttendee(prev[i], studentId)
        ELSE prev[i]]

\* React renders the provider again: the closures of the new render see the
\* state as it is now
render ==
    /\ rendered # Snapshot
    /\ rendered' = Snapshot
    /\ UNCHANGED <<ctx, students, sessions, currentSessionId, usedIds, nextId, lastCall>>
    /\ UNCHANGED <<coreVars, scanVars, dbVars>>

\* src/store/AppContext.tsx, addStudent: [...students, newStudent] of the
\* closure's students
addStudent ==
    /\ ctx = "AppContext"
    /\ \E id \in StudentIds \ usedIds :
          /\ usedIds' = usedIds \cup {id}
          /\ students' = rendered.students \cup {id}
    /\ UNCHANGED <<ctx, sessions, currentSessionId, rendered, nextId, lastCall>>
    /\ UNCHANGED <<coreVars, scanVars, dbVars>>

\* src/unnamed/part_008, addStudent: setStudents((prev) => [...prev, newStudent])
addStudent_p008 ==
    /\ ctx = "part_008"
    /\ \E id \in StudentIds \ usedIds :
          /\ usedIds' = usedIds \cup {id}
          /\ students' = students \cup {id}
    /\ UNCHANGED <<ctx, sessions, currentSessionId, rendered, nextId, lastCall>>
    /\ UNCHANGED <<coreVars, scanVars, dbVars>>

\* src/store/AppContext.tsx, deleteStudent
deleteStudent ==
    /\ ctx = "AppContext"
    /\ \E id \in rendered.students :
          /\ students # rendered.students \ {id}
          /\ students' = rendered.students \ {id}
    /\ UNCHANGED <<ctx, sessions, currentSessionId, rendered, usedIds, nextId, lastCall>>
    /\ UNCHANGED <<coreVars, scanVars, dbVars>>

\* src/unnamed/part_008, deleteStudent
deleteStudent_p008 ==
    /\ ctx = "part_008"
    /\ \E id \in students : students' = students \ {id}
    /\ UNCHANGED <<ctx, sessions, currentSessionId, rendered, usedIds, nextId, lastCall>>
    /\ UNCHANGED <<coreVars, scanVars, dbVars>>

\* the session startSession creates
NewSession(id) == Session(id, 0, <<>>)

\* src/store/AppContext.tsx, startSession: [newSession, ...sessions] of the
\* closure's sessions
startSession ==
    /\ ctx = "AppContext"
    /\ nextId <= MaxSessions
    /\ sessions' = <<NewSession(nextId)>> \o rendered.sessions
    /\ currentSessionId' = nextId
    /\ nextId' = nextId + 1
    /\ UNCHANGED <<ctx, students, rendered, usedIds, lastCall>>
    /\ UNCHANGED <<coreVars, scanVars, dbVars>>

\* src/unnamed/part_008, startSession: setSessions((prev) => [newSession, ...prev])
startSession_p008 ==
    /\ ctx = "part_008"
    /\ nextId <= MaxSessions
    /\ sessions' = <<NewSession(nextId)>> \o sessions
    /\ currentSessionId' = nextId
    /\ nextId' = nextId + 1
    /\ UNCHANGED <<ctx, students, rendered, usedIds, lastCall>>
    /\ UNCHANGED <<coreVars, scanVars, dbVars>>

\* the session with this id has the student among its attendees
MarkedIn(S, id, studentId) ==
    HasSession(S, id) /\ HasAttendee(SessionOf(S, id), studentId)

\* history: the call, what it returned, and whether an earlier call had marked
\* the student in a state update the closure R did not see yet
Call(R, op, arg, ret) ==
    [op |-> op, arg |-> arg, ret |-> ret,
     unseen |-> /\ MarkedIn(sessions, R.currentSessionId, arg)
                /\ ~MarkedIn(R.sessions, R.currentSessionId, arg),
     tick |-> 1 - lastCall.tick]

\* src/store/AppContext.tsx, markAttendance as the closure of the render R runs
\* it: currentSessionId, students and sessions are those of R
MarkAttendance_AppContext(R, studentId) ==
    IF R.currentSessionId = 0
    THEN /\ lastCall' = Call(R, "markAttendance", studentId, FALSE)
         /\ UNCHANGED sessions
    ELSE IF studentId \notin R.students
    THEN /\ lastCall' = Call(R, "markAttendance", studentId, FALSE)
         /\ UNCHANGED sessions
    ELSE IF MarkedIn(R.sessions, R.currentSessionId, studentId)
    THEN /\ lastCall' = Call(R, "markAttendance", studentId, FALSE)
         /\ UNCHANGED sessions
    ELSE /\ sessions' = MarkedSessions(R.sessions, R.currentSessionId, studentId)
         /\ lastCall' = Call(R, "markAttendance", studentId, TRUE)

\* src/unnamed/part_008, markAttendance: currentSessionId and students are those
\* of the closure, the updater runs on the latest sessions.  React runs the
\* updater inside setSessions only when no update is pending (and need not even
\* then); otherwise it runs at the next render, after markAttendance returned,
\* and alreadyMarked is still false at the return.
MarkAttendance_p008(R, studentId) ==
    IF R.currentSessionId = 0
    THEN /\ lastCall' = Call(R, "markAttendance", studentId, FALSE)
         /\ UNCHANGED sessions
    ELSE IF studentId \notin R.students
    THEN /\ lastCall' = Call(R, "markAttendance", studentId, FALSE)
         /\ UNCHANGED sessions
    ELSE /\ sessions' = MarkedSessions_p008(sessions, R.currentSessionId, studentId)
         /\ \E eager \in (IF rendered.sessions = sessions THEN BOOLEAN ELSE {FALSE}) :
               LET alreadyMarked ==
                       eager /\ MarkedIn(sessions, R.currentSessionId, studentId)
               IN lastCall' = Call(R, "markAttendance", studentId, ~alreadyMarked)

\* a call of markAttendance from the latest render (a press, a test, the mock
\* scanner of src/lib/webMocks)
markAttendance ==
    /\ ctx = "AppContext"
    /\ \E studentId \in StudentIds : MarkAttendance_AppContext(rendered, studentId)
    /\ UNCHANGED <<ctx, students, currentSessionId, rendered, usedIds, nextId>>
    /\ UNCHANGED <<coreVars, scanVars, dbVars>>

markAttendance_p008 ==
    /\ ctx = "part_008"
    /\ \E studentId \in StudentIds : MarkAttendance_p008(rendered, studentId)
    /\ UNCHANGED <<ctx, students, currentSessionId, rendered, usedIds, nextId>>
    /\ UNCHANGED <<coreVars, scanVars, dbVars>>

\* endSession of both providers: setCurrentSessionId(null)
endSession ==
    /\ currentSessionId # 0
    /\ currentSessionId' = 0
    /\ UNCHANGED <<ctx, students, sessions, rendered, usedIds, nextId, lastCall>>
    /\ UNCHANGED <<coreVars, scanVars, dbVars>>

\* no call of the matcher is under way
MatcherOff ==
    /\ pc = "off"
    /\ liveEmbedding = JsNull
    /\ storedEmbeddings = <<>>
    /\ vector = JsNull
    /\ flow = "none"
    /\ vectorRef = JsNull
    /\ normalizedEmbedding = JsNull
    /\ impl = "none"
    /\ liveArr = <<>>
    /\ idx = 1
    /\ bestMatch = NullMatch
    /\ bestIdx = 0
    /\ compared = <<>>
    /\ similarity = SimZero
    /\ result = Pending
    /\ threshold = NoArgument
    /\ model = "null"
    /\ pendingLoads = 0
    /\ numLoads = 0
    /\ numCalls = 1
    /\ returned = {}

InitSessions ==
    /\ MatcherOff
    /\ ctx \in {"AppContext", "part_008"}
    /\ InitApp
    /\ screen = "none"
    /\ InitScan
    /\ InitDb

NextSessions ==
    \/ render
    \/ addStudent
    \/ addStudent_p008
    \/ deleteStudent
    \/ deleteStudent_p008
    \/ startSession
    \/ startSession_p008
    \/ markAttendance
    \/ markAttendance_p008
    \/ endSession

SpecSessions == InitSessions /\ [][NextSessions]_vars

\* ------------------------------------------------------------ the scanners
\* src/lib/faceRecognition.ts, findBestMatch as a function of its arguments:
\* the loop of findBestMatchLoop_lib run to its end
RECURSIVE BestFrom_lib(_, _, _, _)
BestFrom_lib(live, stored, i, best) ==
    IF i > Len(stored) THEN best
    ELSE LET sim == cosineSimilarity_lib(live, stored[i].embedding)
         IN IF sim.kind = "throw" THEN ThrowResult
            ELSE BestFrom_lib(live, stored, i + 1,
                              IF MeetsThreshold(sim) /\ Replaces(best, sim)
                              THEN Match(stored[i].studentId, sim)
                              ELSE best)

findBestMatchOf_lib(live, stored) ==
    IF Len(stored) = 0 THEN NullMatch
    ELSE BestFrom_lib(live, stored, 1, InitialBestMatch)

\* what getAllFaceEmbeddings hands to the scanner at mount: two students, and a
\* table whose record has another length than the frames
ScanEnrollments ==
    {<<[studentId |-> "s1", embedding |-> JsArray(<<4, 3>>)],
       [studentId |-> "s2", embedding |-> JsArray(<<0, 4>>)]>>,
     <<[studentId |-> "s1", embedding |-> JsArray(<<3>>)]>>}

\* the descriptors of the frames: the face of s1, the face of s2, a stranger
\* (similarity below 0 to s1, 0 to s2), and no descriptor
ScanFrames ==
    {JsFloat32(<<4, 3>>), JsFloat32(<<0, 4>>), JsFloat32(<<0 - 3, 0>>), JsNull}

PhotoThrows == [kind |-> "throw", data |-> <<>>, hole |-> 0]
PhotoNoFace == [kind |-> "noface", data |-> <<>>, hole |-> 0]

\* what the awaits of performRecognition give: takePhoto, detectFaces or
\* generateEmbeddingFromPhoto rejects, no face is in the photo, or the
\* embedding of the photo
ScanPhotos ==
    {PhotoThrows, PhotoNoFace}
    \cup {normalize_lib(v) : v \in {<<4, 3>>, <<0, 4>>, <<0 - 3, 0>>}}

\* the guard let every request through
Busy_never(flag) == FALSE
\* if (isCapturing.current || ...), if (isProcessing.current || ...)
Busy(flag) == flag

\* every id passes for a student of the list
FindsStudent_any(list, id) == TRUE
\* students.find((s) => s.id === match.studentId)
FindsStudent(list, id) == id \in list

\* markAttendance of the provider in use, as the closure of the render R
MarkAttendance(R, studentId) ==
    IF ctx = "AppContext"
    THEN MarkAttendance_AppContext(R, studentId)
    ELSE MarkAttendance_p008(R, studentId)

\* the mount effect of both scanners: setStoredEmbeddings(await getAllFaceEmbeddings())
loadEmbeddings ==
    /\ screen # "none"
    /\ storedEmbeddings = <<>>
    /\ storedEmbeddings' \in ScanEnrollments
    /\ UNCHANGED <<pc, impl, liveEmbedding, liveArr, idx, bestMatch, bestIdx, compared,
                   similarity, result>>
    /\ UNCHANGED <<pipeVars, callVars, appVars>>

\* screens/AttendanceScannerScreen.tsx, syncFaceState while the scanner is open:
\* the frame processor leaves the descriptor of the latest frame in vectorRef
syncFaceState_live ==
    /\ screen = "AttendanceScannerScreen"
    /\ \E frame \in ScanFrames :
          LET cleanVector == ensureArray(frame)
          IN /\ vectorRef' = IF Len(cleanVector) > 0 THEN JsFloat32(cleanVector) ELSE JsNull
             /\ vectorRef' # vectorRef
    /\ UNCHANGED <<flow, vector, normalizedEmbedding>>
    /\ UNCHANGED <<matcherVars, callVars, appVars>>

\* screens/AttendanceScannerScreen.tsx, onCapture, from the press to the await
\* of markAttendance (the handler of onCapture above, with the flag and with
\* what follows findBestMatch)
onCapture_live ==
    /\ screen = "AttendanceScannerScreen"
    /\ IF Busy(isCapturing) \/ vectorRef.kind = "null" \/ Len(storedEmbeddings) = 0
       THEN /\ request' = "returned"
            /\ UNCHANGED <<sessions, lastCall, isCapturing, stage, match, finds,
                           wasMarked, scanResult, overlap>>
       ELSE LET rawEmbedding == vectorRef.data
                normalized == JsArray(normalizeEmbedding(rawEmbedding))
                found == findBestMatchOf_lib(normalized, storedEmbeddings)
            IN /\ request' = "started"
               /\ overlap' = (overlap \/ stage # "ready")
               /\ match' = found
               /\ finds' = 1 - finds
               /\ IF found.kind = "match" /\ FindsStudent(rendered.students, found.studentId)
                  THEN /\ MarkAttendance(rendered, found.studentId)
                       /\ wasMarked' = lastCall'.ret
                       /\ isCapturing' = TRUE
                       /\ stage' = "marking"
                       /\ UNCHANGED scanResult
                  ELSE /\ scanResult' = "unknown"
                       /\ isCapturing' = FALSE
                       /\ stage' = "ready"
                       /\ UNCHANGED <<sessions, lastCall, wasMarked>>
    /\ UNCHANGED <<ctx, students, currentSessionId, rendered, usedIds, nextId>>
    /\ UNCHANGED <<screen, isProcessing, closure, lastRecognitionTime>>
    /\ UNCHANGED <<coreVars, dbVars>>

\* onCapture after await markAttendance(matchedStudent.id)
onCaptureMarked ==
    /\ screen = "AttendanceScannerScreen"
    /\ stage = "marking"
    /\ IF wasMarked
       THEN /\ scanResult' = "success"
            /\ stage' = "timer"
            /\ UNCHANGED isCapturing
       ELSE /\ scanResult' = "duplicate"
            /\ isCapturing' = FALSE
            /\ stage' = "ready"
    /\ wasMarked' = FALSE
    /\ UNCHANGED <<screen, isProcessing, closure, match, finds, lastRecognitionTime,
                   request, overlap>>
    /\ UNCHANGED <<coreVars, sessVars, dbVars>>

\* the setTimeout of the success path, 2000 ms later
onCaptureReset_keep ==
    /\ screen = "AttendanceScannerScreen"
    /\ stage = "timer"
    /\ scanResult' = "null"
    /\ stage' = "ready"
    /\ UNCHANGED <<screen, isCapturing, isProcessing, closure, match, finds, wasMarked,
                   lastRecognitionTime, request, overlap>>
    /\ UNCHANGED <<coreVars, sessVars, dbVars>>

onCaptureReset ==
    /\ screen = "AttendanceScannerScreen"
    /\ stage = "timer"
    /\ scanResult' = "null"
    /\ isCapturing' = FALSE
    /\ stage' = "ready"
    /\ UNCHANGED <<screen, isProcessing, closure, match, finds, wasMarked,
                   lastRecognitionTime, request, overlap>>
    /\ UNCHANGED <<coreVars, sessVars, dbVars>>

\* setTimeout(() => setResult(null), ...) of the other paths and of part_004
resultTimeout ==
    /\ screen # "none"
    /\ scanResult # "null"
    /\ scanResult' = "null"
    /\ UNCHANGED <<screen, isCapturing, isProcessing, stage, closure, match, finds,
                   wasMarked, lastRecognitionTime, request, overlap>>
    /\ UNCHANGED <<coreVars, sessVars, dbVars>>

\* src/unnamed/part_004, performRecognition, from the press to the await of
\* takePhoto.  Every student of the model has a face enrolled; tooSoon says
\* that Date.now() is less than 2000 ms after lastRecognitionTime.
performRecognition ==
    /\ screen = "part_004"
    /\ \E tooSoon \in (IF lastRecognitionTime = 0 THEN {FALSE} ELSE BOOLEAN) :
          IF \/ Busy(isProcessing)
             \/ rendered.students = {}
             \/ Len(storedEmbeddings) = 0
             \/ tooSoon
          THEN /\ request' = "returned"
               /\ UNCHANGED <<isProcessing, stage, closure, lastRecognitionTime, overlap>>
          ELSE /\ request' = "started"
               /\ overlap' = (overlap \/ stage # "ready")
               /\ lastRecognitionTime' = 1
               /\ isProcessing' = TRUE
               /\ stage' = "photo"
               /\ closure' = rendered
    /\ UNCHANGED <<screen, isCapturing, match, finds, wasMarked, scanResult>>
    /\ UNCHANGED <<coreVars, sessVars, dbVars>>

\* performRecognition from the photo to the await of markAttendance, or to its
\* end through return, catch and finally
performRecognitionPhoto ==
    /\ screen = "part_004"
    /\ stage = "photo"
    /\ \E liveEmbedding_ \in ScanPhotos :
          IF liveEmbedding_.kind \in {"throw", "noface"}
          THEN /\ scanResult' = "unknown"
               /\ isProcessing' = FALSE
               /\ stage' = "ready"
               /\ closure' = NoClosure
               /\ UNCHANGED <<sessions, lastCall, match, finds, wasMarked>>
          ELSE LET found == findBestMatchOf_lib(liveEmbedding_, storedEmbeddings)
               IN /\ match' = found
                  /\ finds' = 1 - finds
                  /\ IF /\ found.kind = "match"
                        /\ FindsStudent(closure.students, found.studentId)
                     THEN /\ MarkAttendance(closure, found.studentId)
                          /\ wasMarked' = lastCall'.ret
                          /\ stage' = "marking"
                          /\ UNCHANGED <<isProcessing, scanResult, closure>>
                     ELSE /\ scanResult' = "unknown"
                          /\ isProcessing' = FALSE
                          /\ stage' = "ready"
                          /\ closure' = NoClosure
                          /\ UNCHANGED <<sessions, lastCall, wasMarked>>
    /\ UNCHANGED <<ctx, students, currentSessionId, rendered, usedIds, nextId>>
    /\ UNCHANGED <<screen, isCapturing, lastRecognitionTime, request, overlap>>
    /\ UNCHANGED <<coreVars, dbVars>>

\* performRecognition after await markAttendance, through finally
performRecognitionMarked ==
    /\ screen = "part_004"
    /\ stage = "marking"
    /\ scanResult' = IF wasMarked THEN "success" ELSE "duplicate"
    /\ isProcessing' = FALSE
    /\ stage' = "ready"
    /\ closure' = NoClosure
    /\ wasMarked' = FALSE
    /\ UNCHANGED <<screen, isCapturing, match, finds, lastRecognitionTime, request,
                   overlap>>
    /\ UNCHANGED <<coreVars, sessVars, dbVars>>

\* A scanner is opened on a session that startSession began.  The student list
\* is what addStudent and deleteStudent left (deleteStudent deletes no face
\* embedding, so the table may hold the embedding of a student who is not in
\* the list); the list is edited on another screen, not while a scanner runs.
InitScanner ==
    /\ MatcherOff
    /\ ctx \in {"AppContext", "part_008"}
    /\ students \in SUBSET StudentIds
    /\ sessions = <<NewSession(1)>>
    /\ currentSessionId = 1
    /\ rendered = Snapshot
    /\ usedIds = students
    /\ nextId = 2
    /\ lastCall = NoCall
    /\ screen \in {"AttendanceScannerScreen", "part_004"}
    /\ InitScan
    /\ InitDb

NextScanner ==
    \/ loadEmbeddings
    \/ syncFaceState_live
    \/ onCapture_live
    \/ onCaptureMarked
    \/ onCaptureReset
    \/ resultTimeout
    \/ performRecognition
    \/ performRecognitionPhoto
    \/ performRecognitionMarked
    \/ render

SpecScanner == InitScanner /\ [][NextScanner]_vars

\* the step that follows a settled promise or a fired timer of the handler in
\* progress; at most one of the four is enabled in a state
Continue ==
    \/ onCaptureMarked
    \/ onCaptureReset
    \/ performRecognitionPhoto
    \/ performRecognitionMarked

\* awaited promises settle and timers fire
SpecScannerFair == SpecScanner /\ WF_vars(Continue)

\* ------------------------------------------- src/lib/database.ts: the table
\* most saves of one student between two deletes
MaxSaves == 2

\* the embeddings handed to saveFaceEmbedding: <<3, 4>> and <<4, 4>> become the
\* same Float32Array
DbEmbeddings == {<<3, 4>>, <<4, 4>>, <<0, 4>>}

\* a number as a float32: the nearest number the format holds (in the model,
\* the even numbers), halves away from zero
Float32Of(x) ==
    IF x >= 0 THEN ((x + 1) \div 2) * 2 ELSE 0 - (((0 - x) + 1) \div 2) * 2

\* new Uint8Array(new Float32Array(embedding).buffer, ...)
ToBlob(embedding) ==
    [kind |-> "blob", floats |-> [i \in 1..Len(embedding) |-> Float32Of(embedding[i])]]

\* Array.from(new Float32Array(row.embedding.buffer, ...))
FromBlob(blob) == JsArray(blob.floats)

RECURSIVE WithoutStudent(_, _)
\* the rows of other students, in their order
WithoutStudent(rows, studentId) ==
    IF Len(rows) = 0 THEN <<>>
    ELSE IF rows[1].studentId = studentId
    THEN WithoutStudent(Tail(rows), studentId)
    ELSE <<rows[1]>> \o WithoutStudent(Tail(rows), studentId)

\* INSERT with no UNIQUE constraint to replace on
InsertOrReplace_insert(rows, row) == Append(rows, row)
\* INSERT OR REPLACE on studentId TEXT NOT NULL UNIQUE: the row of the student
\* is deleted and the new row gets the next rowid
InsertOrReplace(rows, row) == Append(WithoutStudent(rows, row.studentId), row)

\* what getAllFaceEmbeddings returns
AllFaceEmbeddings ==
    [i \in 1..Len(face_embeddings) |->
        [studentId |-> face_embeddings[i].studentId,
         embedding |-> FromBlob(face_embeddings[i].embedding)]]

saveFaceEmbedding ==
    /\ \E studentId \in StudentIds, embedding \in DbEmbeddings :
          /\ Len(lastSaved[studentId]) < MaxSaves
          /\ face_embeddings' =
                 InsertOrReplace(face_embeddings,
                                 [studentId |-> studentId, embedding |-> ToBlob(embedding)])
          /\ lastSaved' = [lastSaved EXCEPT ![studentId] = Append(@, embedding)]
    /\ UNCHANGED <<coreVars, sessVars, scanVars>>

deleteFaceEmbedding ==
    /\ \E studentId \in StudentIds :
          /\ face_embeddings' = WithoutStudent(face_embeddings, studentId)
          /\ lastSaved' = [lastSaved EXCEPT ![studentId] = <<>>]
    /\ UNCHANGED <<coreVars, sessVars, scanVars>>

\* getAllFaceEmbeddings as the scanners call it: setStoredEmbeddings(embeddings)
getAllFaceEmbeddings ==
    /\ storedEmbeddings' = AllFaceEmbeddings
    /\ UNCHANGED <<pc, impl, liveEmbedding, liveArr, idx, bestMatch, bestIdx, compared,
                   similarity, result>>
    /\ UNCHANGED <<pipeVars, callVars, appVars>>

InitDatabase ==
    /\ MatcherOff
    /\ ctx = "AppContext"
    /\ InitApp
    /\ screen = "none"
    /\ InitScan
    /\ InitDb

NextDatabase ==
    \/ saveFaceEmbedding
    \/ deleteFaceEmbedding
    \/ getAllFaceEmbeddings

SpecDatabase == InitDatabase /\ [][NextDatabase]_vars

TypeOK ==
    /\ pc \in {"off", "idle", "frame", "scanner", "enroll", "loop", "loop_lib", "done"}
    /\ impl \in {"none", "part_003", "lib"}
    /\ flow \in {"none", "call", "scan", "enroll", "photo"}
    /\ result.kind \in {"pending", "null", "match", "throw"}
    /\ model \in {"null", "loaded"}
    /\ pendingLoads \in 0..MaxLoads
    /\ numLoads \in 0..MaxLoads
    /\ numCalls \in 1..MaxCalls
    /\ ctx \in {"AppContext", "part_008"}
    /\ students \subseteq StudentIds
    /\ currentSessionId \in 0..MaxSessions
    /\ Len(sessions) <= MaxSessions
    /\ screen \in {"none", "AttendanceScannerScreen", "part_004"}
    /\ isCapturing \in BOOLEAN
    /\ isProcessing \in BOOLEAN
    /\ stage \in {"ready", "photo", "marking", "timer"}
    /\ match.kind \in {"pending", "null", "match", "throw"}
    /\ scanResult \in {"null", "success", "duplicate", "unknown"}
    /\ lastRecognitionTime \in 0..1
    /\ Len(face_embeddings) <= Cardinality(StudentIds)

\* ================================================================ claims
\* a call of findBestMatch has returned or thrown
Done == pc = "done" /\ impl # "none"
Returned == Done /\ result.kind = "match"
NumRecords == Len(storedEmbeddings)

\* 0.6 as the specification writes it (3/5)
SixTenths == Sim(3, 25)

\* the similarity of an enrolled descriptor to the query, as computed by the
\* cosineSimilarity of the copy that ran
SimTo(embedding) ==
    IF impl = "lib" THEN cosineSimilarity_lib(liveEmbedding, embedding)
    ELSE cosineSimilarity(liveEmbedding, embedding)
SimOf(i) == SimTo(storedEmbeddings[i].embedding)

QueryLen == Len(ensureArray(liveEmbedding))
MismatchedAt(i) == Len(storedEmbeddings[i].embedding.data) # QueryLen

\* the record the returned match was taken from
FromRecord ==
    /\ bestIdx \in 1..NumRecords
    /\ storedEmbeddings[bestIdx].studentId = result.studentId
    /\ SimOf(bestIdx) = result.similarity

\* C1: whenever findBestMatch returns a Match, it is taken from a record of the
\* enrollment set and no record of the set has a similarity to the query
\* strictly greater than the returned score.
C1_BestIsMaximum ==
    Returned =>
        /\ FromRecord
        /\ \A i \in 1..NumRecords : ~SimGT(SimOf(i), result.similarity)

\* C1 witness: two records qualify and the later, better one was returned.
C1_Witness ==
    /\ Returned
    /\ bestIdx = 2
    /\ SimGE(SimOf(1), SixTenths)
    /\ SimGT(result.similarity, SimOf(1))

\* C2: among the records that reach the returned (maximum) similarity, the
\* returned one is the first of the enrollment sequence.
C2_FirstOfTiesWins ==
    Returned =>
        /\ FromRecord
        /\ \A i \in 1..NumRecords :
              SimEQ(SimOf(i), result.similarity) => bestIdx <= i

\* C2 witness: a later record of another student ties with the returned one.
C2_Witness ==
    /\ Returned
    /\ \E i \in 1..NumRecords :
          /\ i > bestIdx
          /\ SimEQ(SimOf(i), result.similarity)
          /\ storedEmbeddings[i].studentId # result.studentId

\* C3: every returned Match has a score >= 0.6, the threshold in force, and is
\* taken from a record whose similarity is >= 0.6.
C3_ScoreMeetsThreshold ==
    Returned =>
        /\ SimGE(result.similarity, SixTenths)
        /\ bestIdx \in 1..NumRecords
        /\ SimGE(SimOf(bestIdx), SixTenths)

\* C3 witness: a Match is returned from a set that also holds a record below
\* the threshold, met before the returned one.
C3_Witness ==
    /\ Returned
    /\ \E i \in 1..NumRecords :
          i < bestIdx /\ SimOf(i).kind = "num" /\ SimGT(SixTenths, SimOf(i))
\* a record qualifies when its similarity to the query is a number >= 0.6
Qualifies(i) == SimGE(SimOf(i), SixTenths)

\* C4: findBestMatch returns NoMatch if and only if no record of the
\* enrollment set qualifies; whenever a record qualifies, a Match is returned.
C4_NoMatchIffNoneQualifies ==
    Done =>
        /\ result.kind = "null" <=> (\A i \in 1..NumRecords : ~Qualifies(i))
        /\ (\E i \in 1..NumRecords : Qualifies(i)) => result.kind = "match"

\* C4 restricted to the copy of src/unnamed/part_003, where it holds.
C4_part003 == impl = "part_003" => C4_NoMatchIffNoneQualifies

C6_EmptySetNoMatch ==
    (Done /\ NumRecords = 0) => result.kind = "null" /\ compared = <<>>

\* C6 witness: a call with a well-formed, non-zero query and an empty set.
C6_Witness ==
    /\ Done
    /\ NumRecords = 0
    /\ liveEmbedding = JsArray(<<3, 4>>)

\* C7: with a query of zero length (empty, null, or an object with no usable
\* key) and a non-empty enrollment set findBestMatch returns NoMatch and
\* raises no error.
C7_EmptyQueryNoMatch ==
    (Done /\ NumRecords > 0 /\ QueryLen = 0) => result.kind = "null"

\* C7 restricted to the copy of src/unnamed/part_003, where it holds.
C7_part003 == impl = "part_003" => C7_EmptyQueryNoMatch

\* C8: cosineSimilarity of two vectors of different lengths returns 0 and
\* does not throw (the pair is the one of the latest loop iteration).
C8_MismatchIsZero ==
    (/\ Len(compared) > 0
     /\ liveEmbedding.kind \in {"array", "float32"}
     /\ MismatchedAt(compared[Len(compared)]))
        => similarity = SimZero

\* C8 restricted to the copy of src/unnamed/part_003, where it holds.
C8_part003 == impl = "part_003" => C8_MismatchIsZero

\* The first record of greatest similarity among the qualifying records of S,
\* or NoMatch: the result the specification gives for the enrollment set S.
ExpectedOn(S) ==
    LET Q == {i \in 1..Len(S) : SimGE(SimTo(S[i].embedding), SixTenths)}
    IN IF Q = {} THEN [kind |-> "null", studentId |-> "", similarity |-> SimZero]
       ELSE LET b == CHOOSE i \in Q : \A j \in Q :
                        \/ SimGT(SimTo(S[i].embedding), SimTo(S[j].embedding))
                        \/ /\ SimEQ(SimTo(S[i].embedding), SimTo(S[j].embedding))
                           /\ i <= j
            IN [kind |-> "match", studentId |-> S[b].studentId,
                similarity |-> SimTo(S[b].embedding)]

SameLength(r) == Len(r.embedding.data) = QueryLen
WithoutMismatched == SelectSeq(storedEmbeddings, SameLength)

\* C9: a record whose descriptor length differs from the query's does not
\* abort findBestMatch: every record is compared, in order, and the call
\* returns what it returns for the set without the mismatched records.
C9_MismatchSkipped ==
    (/\ Done
     /\ liveEmbedding.kind \in {"array", "float32"}
     /\ QueryLen > 0
     /\ \E i \in 1..NumRecords : MismatchedAt(i))
        => /\ result.kind # "throw"
           /\ compared = [i \in 1..NumRecords |-> i]
           /\ result = ExpectedOn(WithoutMismatched)

\* C9 restricted to the copy of src/unnamed/part_003, where it holds.
C9_part003 == impl = "part_003" => C9_MismatchSkipped

ZeroMagnitude(v) == SumSq(v) = 0
LastCompared == storedEmbeddings[compared[Len(compared)]].embedding

\* C11: cosineSimilarity returns 0 whenever either argument has zero magnitude
\* (all-zero or empty; the pair is the one of the latest loop iteration, of
\* equal lengths), it is never a non-number; and a query of zero magnitude is
\* never matched.
C11_ZeroMagnitudeIsZero ==
    /\ (/\ Len(compared) > 0
        /\ liveEmbedding.kind \in {"array", "float32"}
        /\ ~MismatchedAt(compared[Len(compared)])
        /\ \/ ZeroMagnitude(liveEmbedding.data)
           \/ ZeroMagnitude(LastCompared.data))
           => similarity = SimZero
    /\ (Done /\ ZeroMagnitude(ensureArray(liveEmbedding))) => result.kind # "match"

\* C11 restricted to the copy of src/unnamed/part_003, where it holds.
C11_part003 == impl = "part_003" => C11_ZeroMagnitudeIsZero
\* ----------------------------------------------------------------- C12
\* C12: wherever the program L2-normalizes a descriptor, a descriptor of zero
\* magnitude comes out equal to the input, component for component.
C12_ZeroVectorUnchanged ==
    /\ (flow = "scan" /\ normalizedEmbedding.kind # "null"
            /\ ZeroMagnitude(vectorRef.data))
           => normalizedEmbedding = JsArray(vectorRef.data)
    /\ (flow = "enroll" /\ vectorRef.kind # "null"
            /\ ZeroMagnitude(ensureArray(vector)))
           => vectorRef.data = ensureArray(vector)
    /\ (flow = "enroll" /\ normalizedEmbedding.kind # "null"
            /\ ZeroMagnitude(vectorRef.data))
           => normalizedEmbedding = JsArray(vectorRef.data)
    /\ (flow = "photo" /\ ZeroMagnitude(vector.data))
           => normalizedEmbedding = JsArray(vector.data)

\* C12 restricted to normalizeEmbedding of src/unnamed/part_003 and its
\* callers, where it holds.
C12_part003 == flow # "photo" => C12_ZeroVectorUnchanged

\* the case of C12 under normalizeEmbedding: the scanner normalized an all-zero
\* descriptor
C12_part003_Witness ==
    /\ flow = "scan"
    /\ normalizedEmbedding = JsArray(<<0, 0>>)
\* ----------------------------------------------------------------- C13
\* the vector has L2 norm 1.0 on the fixed-point grid
UnitNorm(v) == SumSq(v) = One * One

\* C13: for every non-zero vector v, normalizeEmbedding(v) has L2 norm 1.0 and
\* the same length as v -- at each call of normalizeEmbedding in the scanner and
\* the enrollment screen.
C13_NormalizedHasUnitNorm ==
    /\ (flow = "scan" /\ normalizedEmbedding.kind # "null"
            /\ ~ZeroMagnitude(vectorRef.data))
           => /\ UnitNorm(normalizedEmbedding.data)
              /\ Len(normalizedEmbedding.data) = Len(vectorRef.data)
    /\ (flow = "enroll" /\ vectorRef.kind # "null"
            /\ ~ZeroMagnitude(ensureArray(vector)))
           => /\ UnitNorm(vectorRef.data)
              /\ Len(vectorRef.data) = Len(ensureArray(vector))
    /\ (flow = "enroll" /\ normalizedEmbedding.kind # "null"
            /\ ~ZeroMagnitude(vectorRef.data))
           => /\ UnitNorm(normalizedEmbedding.data)
              /\ Len(normalizedEmbedding.data) = Len(vectorRef.data)

\* the scanner normalized a raw descriptor that was not of unit norm
C13_Witness ==
    /\ flow = "scan"
    /\ vectorRef.kind # "null"
    /\ ~ZeroMagnitude(vectorRef.data)
    /\ ~UnitNorm(vectorRef.data)
    /\ normalizedEmbedding.kind # "null"
    /\ UnitNorm(normalizedEmbedding.data)

\* ----------------------------------------------------------------- C14
\* C14: normalizeEmbedding is idempotent: the second normalization done by the
\* enrollment screen (onCapture, after syncFaceState) changes no component, so
\* the descriptor it stores is the single normalization of the raw one.
C14_NormalizeIdempotent ==
    (flow = "enroll" /\ normalizedEmbedding.kind # "null"
        /\ ~ZeroMagnitude(ensureArray(vector)))
       => /\ normalizedEmbedding.data = vectorRef.data
          /\ normalizedEmbedding.data = normalizeEmbedding(ensureArray(vector))

\* the enrollment screen normalized twice a raw descriptor that was not of unit
\* norm
C14_Witness ==
    /\ flow = "enroll"
    /\ normalizedEmbedding.kind # "null"
    /\ ~ZeroMagnitude(ensureArray(vector))
    /\ ~UnitNorm(ensureArray(vector))
    /\ normalizedEmbedding.data # ensureArray(vector)
\* ----------------------------------------------------------------- C15
\* the similarity of the record to the query, the arguments of SimTo exchanged
SimFrom(embedding) ==
    IF impl = "lib" THEN cosineSimilarity_lib(embedding, liveEmbedding)
    ELSE cosineSimilarity(embedding, liveEmbedding)

\* C15: cosineSimilarity is symmetric: the similarity computed for a record,
\* cosineSimilarity(query, record), equals cosineSimilarity(record, query),
\* whatever the two lengths and also for zero vectors.
C15_CosineSymmetric ==
    Len(compared) > 0 => similarity = SimFrom(LastCompared)

\* a comparison of two different vectors that gave a non-zero similarity, one of
\* two vectors of different lengths, and one with a zero vector
C15_Witness ==
    /\ impl = "part_003"
    /\ Len(compared) = 2
    /\ similarity.num # 0
    /\ LastCompared.data # liveArr
    /\ \/ MismatchedAt(compared[1])
       \/ ZeroMagnitude(storedEmbeddings[compared[1]].embedding.data)

\* ----------------------------------------------------------------- C16
\* the similarity is a number of [-1.0, 1.0]
InUnitRange(sim) == sim.kind = "num" /\ sim.num * sim.num <= sim.den2

\* C16: for non-zero vectors of equal length, cosineSimilarity lies in
\* [-1.0, 1.0]; so does the score of every match returned.
C16_CosineInRange ==
    /\ (/\ Len(compared) > 0
        /\ liveEmbedding.kind \in {"array", "float32"}
        /\ ~MismatchedAt(compared[Len(compared)])
        /\ ~ZeroMagnitude(liveEmbedding.data)
        /\ ~ZeroMagnitude(LastCompared.data))
           => InUnitRange(similarity)
    /\ Returned => InUnitRange(result.similarity)

\* a match returned on two vectors of different norms, its score below 1.0
C16_Witness ==
    /\ Returned
    /\ bestIdx \in 1..NumRecords
    /\ SumSq(liveArr) # SumSq(storedEmbeddings[bestIdx].embedding.data)
    /\ result.similarity.num * result.similarity.num < result.similarity.den2

\* ----------------------------------------------------------------- C17
\* C17: for every non-zero vector v, cosineSimilarity(v, v) is 1.0.
C17_SelfSimilarityIsOne ==
    (/\ Len(compared) > 0
     /\ liveEmbedding.kind \in {"array", "float32"}
     /\ ~ZeroMagnitude(liveEmbedding.data)
     /\ LastCompared.kind \in {"array", "float32"}
     /\ LastCompared.data = liveEmbedding.data)
        => SimEQ(similarity, Sim(1, 1))

\* a non-zero vector, not of unit norm, compared to itself
C17_Witness ==
    /\ Len(compared) > 0
    /\ liveEmbedding.kind \in {"array", "float32"}
    /\ LastCompared.kind \in {"array", "float32"}
    /\ LastCompared.data = liveEmbedding.data
    /\ ~ZeroMagnitude(liveEmbedding.data)
    /\ ~UnitNorm(liveEmbedding.data)
    /\ SimEQ(similarity, Sim(1, 1))
\* ----------------------------------------------------------------- C18
\* v is a positive scalar multiple of u: the components are proportional and
\* the dot product is positive
PositiveMultiple(v, u) ==
    /\ Len(v) = Len(u)
    /\ \A i, j \in 1..Len(v) : v[i] * u[j] = v[j] * u[i]
    /\ SumProd(v, u, Len(v)) > 0

\* the raw descriptor the scanner took from the frame
RawQuery == ensureArray(vector)

\* record i is an enrolled unit descriptor and the raw query of the scanner is a
\* positive multiple of it
MultipleOfUnit(i) ==
    /\ flow = "scan"
    /\ UnitNorm(storedEmbeddings[i].embedding.data)
    /\ PositiveMultiple(RawQuery, storedEmbeddings[i].embedding.data)

SameDirection(j) == PositiveMultiple(RawQuery, storedEmbeddings[j].embedding.data)
FirstOfDirection ==
    CHOOSE j \in 1..NumRecords :
        SameDirection(j) /\ \A k \in 1..(j - 1) : ~SameDirection(k)

\* C18 (as stated): when the raw query of the scanner is a positive multiple of
\* an enrolled unit descriptor, normalizeEmbedding followed by findBestMatch
\* returns a match on that record's identity with score 1.0.
C18_PipelineMatchesThatIdentity ==
    \A i \in 1..NumRecords :
        (Done /\ MultipleOfUnit(i))
            => /\ Returned
               /\ SimEQ(result.similarity, Sim(1, 1))
               /\ result.studentId = storedEmbeddings[i].studentId

\* C18 (amended): in that case the pipeline returns a match with score 1.0 on
\* the first record of the set whose descriptor has the query's direction, which
\* is that identity when no earlier record has the same direction.
C18_PipelineMatchesFirstOfDirection ==
    \A i \in 1..NumRecords :
        (Done /\ MultipleOfUnit(i))
            => /\ Returned
               /\ SimEQ(result.similarity, Sim(1, 1))
               /\ result.studentId = storedEmbeddings[FirstOfDirection].studentId
               /\ (\A k \in 1..(i - 1) : ~SameDirection(k))
                      => result.studentId = storedEmbeddings[i].studentId

\* the scanner matched the raw query <<6, 8>> to the second record, the unit
\* descriptor <<3, 4>> on the fixed-point grid, with score 1.0
C18_Witness ==
    /\ Returned
    /\ RawQuery = <<6, 8>>
    /\ NumRecords = 2
    /\ MultipleOfUnit(2)
    /\ bestIdx = 2
    /\ SimEQ(result.similarity, Sim(1, 1))
\* ----------------------------------------------------------------- C19
\* the threshold the call would apply if it took the caller's: the third
\* argument, 0.6 when there is none
SuppliedThreshold == IF threshold = NoArgument THEN SixTenths ELSE threshold

AllCalls == returned \cup (IF Done THEN {ThisCall} ELSE {})

\* C20: the result of a call of findBestMatch is a function of its query and its
\* enrollment set only: two calls of the same copy with equal arguments gave
\* equal results, and the call that has just returned from src/unnamed/part_003
\* gave what its arguments alone determine, whatever calls of findBestMatch, of
\* normalizeEmbedding and of loadFaceModel ran before it or between its start
\* and a pending load's end.
C20_ResultDependsOnArgumentsOnly ==
    /\ \A c1, c2 \in AllCalls :
           (/\ c1.impl = c2.impl
            /\ c1.liveEmbedding = c2.liveEmbedding
            /\ c1.storedEmbeddings = c2.storedEmbeddings)
               => c1.result = c2.result
    /\ (Done /\ impl = "part_003") => result = ExpectedOn(storedEmbeddings)

\* a second call returned no match after a first call with another set returned
\* a match, the model loaded and a descriptor normalized in between
C20_Witness ==
    /\ Done
    /\ impl = "part_003"
    /\ numCalls = 2
    /\ result.kind = "null"
    /\ Len(compared) > 0
    /\ \E c \in returned : c.impl = "part_003" /\ c.result.kind = "match"
    /\ model = "loaded"
    /\ normalizedEmbedding # JsNull
\* ----------------------------------------------------------------- C21
\* C21: neither normalizeEmbedding nor findBestMatch modifies its arguments:
\* no step of the scanner, of the enrollment screen or of a call of
\* findBestMatch changes the raw descriptor (vector, vectorRef.current once
\* set), and no step of findBestMatch changes the query or a record, the length
\* or the order of the enrollment set.
C21_ArgumentsUnchanged ==
    [][/\ vector' = vector
       /\ pc \in {"scanner", "enroll"} => vectorRef' = vectorRef
       /\ pc \in {"idle", "loop", "loop_lib"}
             => /\ liveEmbedding' = liveEmbedding
                /\ storedEmbeddings' = storedEmbeddings]_vars

\* the scanner normalized a raw descriptor to another vector and findBestMatch
\* returned a match from a set of two records
C21_Witness ==
    /\ Returned
    /\ flow = "scan"
    /\ NumRecords = 2
    /\ normalizedEmbedding.data # vectorRef.data
    /\ vectorRef.data = ensureArray(vector)

\* ----------------------------------------------------------------- C22
\* C22: a call of findBestMatch that reaches its loop ends having compared the
\* query with every record exactly once, in sequence order, also after a
\* qualifying record was found.
C22_ComparesEachRecordOnce ==
    /\ compared = [k \in 1..Len(compared) |-> k]
    /\ pc \in {"loop", "loop_lib"} => Len(compared) = idx - 1
    /\ (Done /\ Len(compared) > 0) => Len(compared) = NumRecords
    /\ (Done /\ impl = "part_003" /\ NumRecords > 0 /\ QueryLen > 0)
           => Len(compared) = NumRecords

\* C22 restricted to findBestMatch of src/unnamed/part_003, where it holds.
C22_part003 == impl = "part_003" => C22_ComparesEachRecordOnce

\* findBestMatch of part_003 returned a match on the first of two records
\* after comparing both
C22_part003_Witness ==
    /\ Returned
    /\ impl = "part_003"
    /\ bestIdx = 1
    /\ compared = <<1, 2>>
\* ----------------------------------------------------------------- C23
\* no student id twice among the attendees of the session
NoDuplicate(session) ==
    \A i, j \in 1..Len(session.attendees) :
        session.attendees[i] = session.attendees[j] => i = j

C24_PresentCountIsAttendees ==
    [][\A i \in 1..Len(sessions') :
          LET new == sessions'[i]
          IN /\ new.presentCount = Len(new.attendees)
             /\ ~HasSession(sessions, new.id)
                   => new.presentCount = 0 /\ new.attendees = <<>>
             /\ (/\ HasSession(sessions, new.id)
                 /\ new.presentCount > SessionOf(sessions, new.id).presentCount)
                   => /\ lastCall' # lastCall
                      /\ lastCall'.ret
                      /\ new.presentCount = SessionOf(sessions, new.id).presentCount + 1
                      /\ new.attendees =
                             Append(SessionOf(sessions, new.id).attendees, lastCall'.arg)
      ]_vars

\* a session with two attendees and presentCount 2, beside another session
C24_Witness ==
    /\ Len(sessions) = 2
    /\ \E i \in 1..Len(sessions) :
          sessions[i].presentCount = 2 /\ Len(sessions[i].attendees) = 2

\* ----------------------------------------------------------------- C25
\* C25: a call of markAttendance returns false and leaves the sessions as they
\* are when there is no current session, when the student is not in the student
\* list, or when the student is among the current session's attendees; and it
\* returns true exactly when it appended the student to the current session.
C25_MarkAttendanceResult ==
    [][lastCall' # lastCall =>
          LET studentId == lastCall'.arg
          IN /\ (\/ currentSessionId = 0
                 \/ studentId \notin students
                 \/ MarkedIn(sessions, currentSessionId, studentId))
                   => ~lastCall'.ret /\ sessions' = sessions
             /\ lastCall'.ret
                   <=> /\ currentSessionId # 0
                       /\ sessions' # sessions
                       /\ sessions' = MarkedSessions(sessions, currentSessionId, studentId)
      ]_vars

\* the second of two calls for one student from one render's closure returned
\* true although the first had marked the student
C25_SecondCallTrue ==
    ~(ctx = "AppContext" /\ lastCall.op = "markAttendance" /\ lastCall.unseen /\ lastCall.ret)

\* in src/unnamed/part_008 a call for a student the closure saw as marked
\* returned true, its updater not having run before the return
C25_DeferredUpdaterTrue ==
    ~(/\ ctx = "part_008" /\ lastCall.op = "markAttendance" /\ lastCall.ret
      /\ rendered = Snapshot
      /\ Len(sessions) = 1 /\ sessions[1].attendees = <<lastCall.arg>>)
\* ----------------------------------------------------------------- C26
\* findBestMatchOf_lib is what the steps of findBestMatch_lib arrive at
FoldIsLoop_lib ==
    (Done /\ impl = "lib")
        => result = findBestMatchOf_lib(liveEmbedding, storedEmbeddings)

\* the student list the running handler holds
ScannerStudents ==
    IF screen = "part_004" THEN closure.students ELSE rendered.students

FlagSet == isCapturing \/ isProcessing

\* C27: no capture begins while another is in progress, the flag is set exactly
\* while a capture is in progress, and a capture request made while the flag is
\* set returns: it calls neither findBestMatch nor markAttendance and changes
\* nothing.
C27_OneRecognitionAtATime ==
    [][/\ ~overlap'
       /\ FlagSet' <=> stage' # "ready"
       /\ (FlagSet /\ request' # request)
            => /\ request' = "returned"
               /\ finds' = finds
               /\ match' = match
               /\ lastCall' = lastCall
               /\ sessions' = sessions
               /\ stage' = stage
               /\ scanResult' = scanResult
      ]_vars

\* a capture request returned while the flag was set by a capture in progress
C27_Witness ==
    /\ FlagSet
    /\ request = "returned"
    /\ stage \in {"photo", "marking", "timer"}

\* ----------------------------------------------------------------- C28
\* C28: whenever the flag is set it is cleared later, given that the awaited
\* promises settle and the timer fires.
C28_FlagEventuallyCleared == FlagSet ~> ~FlagSet

\* the capture that marked a student is over and the flag is clear
C28_Witness ==
    /\ ~FlagSet
    /\ stage = "ready"
    /\ request = "started"
    /\ match.kind = "match"
    /\ lastCall.ret
    /\ lastCall.arg = match.studentId
\* ----------------------------------------------------------------- C29
\* C29: the model is loaded at most once: no call of loadFaceModel starts
\* loadTensorflowModel while another call awaits it, or when the model is
\* loaded; so at most one load is under way, and none once the model is loaded.
C29_ModelLoadedAtMostOnce ==
    /\ pendingLoads <= 1
    /\ model = "loaded" => pendingLoads = 0

\* the half of C29 that holds: a call made when the model is loaded starts no
\* load, and the model changes only when a load resolves (a rejected load
\* leaves it as it was)
C29_LoadedOrFailed ==
    [][/\ (model = "loaded" /\ numLoads' # numLoads) => pendingLoads' = pendingLoads
       /\ model' # model => (model' = "loaded" /\ pendingLoads' = pendingLoads - 1)
      ]_vars

\* ----------------------------------------------------------------- C30
\* the embedding as getAllFaceEmbeddings returns it after a save
Stored(embedding) == FromBlob(ToBlob(embedding))

\* the list holds one record of the student's latest save, or none if the
\* student has no save since the last delete
OneRecordOfLatestSave(all, studentId) ==
    LET at == {i \in 1..Len(all) : all[i].studentId = studentId}
        saved == lastSaved[studentId]
    IN IF Len(saved) = 0 THEN at = {}
       ELSE /\ Cardinality(at) = 1
            /\ \A i \in at : all[i].embedding = Stored(saved[Len(saved)])

\* C30: after any sequence of saveFaceEmbedding and deleteFaceEmbedding, what
\* getAllFaceEmbeddings returns holds at most one record per student id, the
\* record of the latest save of that student (as float32), and none for a
\* student whose embedding was deleted since; what a scanner loaded has at most
\* one record per student too.
C30_OneRecordPerStudent ==
    /\ \A studentId \in StudentIds :
          OneRecordOfLatestSave(AllFaceEmbeddings, studentId)
    /\ \A i, j \in 1..Len(storedEmbeddings) :
          storedEmbeddings[i].studentId = storedEmbeddings[j].studentId => i = j

\* a student enrolled again with another face: the record is that of the
\* second save, next to the record of another student
C30_Witness ==
    /\ Len(lastSaved["s1"]) = 2
    /\ Stored(lastSaved["s1"][1]) # Stored(lastSaved["s1"][2])
    /\ Len(AllFaceEmbeddings) = 2
    /\ AllFaceEmbeddings[2].studentId = "s1"
    /\ AllFaceEmbeddings[2].embedding = Stored(lastSaved["s1"][2])
    /\ AllFaceEmbeddings[2].embedding # JsArray(lastSaved["s1"][2])
====
